---- MODULE Spec2Model ----
(***************************************************************************)
(* A model of skimage/io/_plugins/pil_plugin.py: the conversions between   *)
(* PIL images and numpy arrays (pil_to_ndarray, ndarray_to_pil,            *)
(* _palette_is_grayscale) and the entry points built on them (imread,      *)
(* imsave).                                                                *)
(*                                                                         *)
(* An array is a record [shape, dtype, data]: data is the flat, C-order    *)
(* list of the elements.  A floating-point element is held as its          *)
(* numerator over FloatDen.  An image is a record [mode, size, data,       *)
(* palette, fp, readable]: mode is the mode tag as a sequence of           *)
(* characters, size is (width, height), data is the raster-order list of   *)
(* pixels, each pixel the tuple of its band values, palette is the flat    *)
(* list getpalette() returns, fp says whether the image holds an open file *)
(* handle and readable whether the decoder can produce its pixel data.     *)
(* Bytes are little-endian where numpy uses the native order.              *)
(***************************************************************************)
EXTENDS Integers, Sequences, FiniteSets

\* ------------------------------------------------------------ bounds
\* Largest height and width of the arrays and images drawn as inputs.
MaxH == 2
MaxW == 2
\* Largest last dimension of a 3-D input array.
MaxC == 4
\* Number of palette entries of the palette images drawn as inputs
\* (PIL's palettes hold 256).
PalLen == 2
\* Floating-point elements are the multiples of 1/FloatDen in [0, 1].
FloatDen == 2

\* ------------------------------------------------------------ helpers
Range(s) == {s[i] : i \in DOMAIN s}

SeqMax(s) == CHOOSE x \in Range(s) : \A y \in Range(s) : y <= x

SeqMin(s) == CHOOSE x \in Range(s) : \A y \in Range(s) : x <= y

Reverse(s) == [i \in 1..Len(s) |-> s[Len(s) + 1 - i]]

Product(s) == IF Len(s) = 0 THEN 1
              ELSE IF Len(s) = 1 THEN s[1]
              ELSE IF Len(s) = 2 THEN s[1] * s[2]
              ELSE IF Len(s) = 3 THEN s[1] * s[2] * s[3]
              ELSE s[1] * s[2] * s[3] * s[4]

RECURSIVE Flatten(_)
Flatten(ss) == IF ss = <<>> THEN <<>> ELSE Head(ss) \o Flatten(Tail(ss))

\* The i-th group of n consecutive items of s (i from 1).
Chunk(s, n, i) == SubSeq(s, (i - 1) * n + 1, i * n)

\* str.startswith, str.endswith and the `in` test on a mode tag.
StartsWith(s, p) == Len(s) >= Len(p) /\ SubSeq(s, 1, Len(p)) = p

EndsWith(s, c) == Len(s) >= 1 /\ s[Len(s)] = c

Contains(s, c) == \E i \in 1..Len(s) : s[i] = c

\* ------------------------------------------------------------ mode tags
Mode1 == <<"1">>
ModeL == <<"L">>
ModeP == <<"P">>
ModeI == <<"I">>
ModeF == <<"F">>
ModeLA == <<"L", "A">>
ModePA == <<"P", "A">>
ModeRGB == <<"R", "G", "B">>
ModeRGBA == <<"R", "G", "B", "A">>
ModeRGBX == <<"R", "G", "B", "X">>
ModeCMYK == <<"C", "M", "Y", "K">>
ModeYCbCr == <<"Y", "C", "b", "C", "r">>
ModeI16 == <<"I", ";", "1", "6">>
ModeI16L == <<"I", ";", "1", "6", "L">>
ModeI16B == <<"I", ";", "1", "6", "B">>
NoMode == <<>>

\* ------------------------------------------------------------ numpy
NoArray == [shape |-> <<>>, dtype |-> "None", data |-> <<>>]

\* dtype.kind
Kind(dtype) == IF dtype \in {"float32", "float64"} THEN "f"
               ELSE IF dtype \in {"uint8", "uint16"} THEN "u"
               ELSE "i"

\* dtype.itemsize
ItemSize(dtype) == IF dtype = "uint8" THEN 1
                   ELSE IF dtype = "uint16" THEN 2
                   ELSE IF dtype \in {"int32", "float32"} THEN 4
                   ELSE 8

\* One element cast to dtype `to`, as ndarray.astype and np.array(x, dtype)
\* cast it: a float is truncated to an integer, and an integer wraps into
\* the range of an unsigned target.  Every integer of the model lies within
\* the signed 32-bit range, so a cast to int32 keeps it.
CastValue(v, from, to) ==
    LET int == IF Kind(from) = "f" THEN v \div FloatDen ELSE v
    IN  IF Kind(to) = "f" THEN (IF Kind(from) = "f" THEN v ELSE v * FloatDen)
        ELSE IF to = "uint8" THEN int % 256
        ELSE IF to = "uint16" THEN int % 65536
        ELSE int

AsType(a, dtype) ==
    [shape |-> a.shape, dtype |-> dtype,
     data |-> [i \in 1..Len(a.data) |-> CastValue(a.data[i], a.dtype, dtype)]]

\* ndarray.squeeze(): every dimension of length 1 is removed.
Squeeze(a) == [a EXCEPT !.shape = SelectSeq(a.shape, LAMBDA d : d # 1)]

\* The n bytes of one integer element, least significant first (two's
\* complement for a negative one).
LEBytes(v, n) == [i \in 1..n |-> (v \div 256^(i - 1)) % 256]

\* ndarray.tostring(): the elements' bytes in C order.
tostring(a) ==
    Flatten([i \in 1..Len(a.data) |-> LEBytes(a.data[i], ItemSize(a.dtype))])

\* ------------------------------------------------------------ skimage.util
\* The numeric-range conversions of skimage.util, which map an array into
\* the canonical range of the target kind: a float in [0, 1] is scaled to
\* the full range and rounded, a wider integer is scaled down.
ScaleFloat(v, top) == (2 * v * top + FloatDen) \div (2 * FloatDen)

img_as_ubyte(a) ==
    [shape |-> a.shape, dtype |-> "uint8",
     data |-> [i \in 1..Len(a.data) |->
                 LET v == a.data[i]
                 IN  IF Kind(a.dtype) = "f" THEN ScaleFloat(v, 255)
                     ELSE IF a.dtype = "uint8" THEN v
                     ELSE IF a.dtype = "uint16" THEN v \div 256
                     ELSE (IF v < 0 THEN 0 ELSE v) \div 8388608]]

img_as_uint(a) ==
    [shape |-> a.shape, dtype |-> "uint16",
     data |-> [i \in 1..Len(a.data) |->
                 LET v == a.data[i]
                 IN  IF Kind(a.dtype) = "f" THEN ScaleFloat(v, 65535)
                     ELSE IF a.dtype = "uint8" THEN v * 257
                     ELSE IF a.dtype = "uint16" THEN v
                     ELSE (IF v < 0 THEN 0 ELSE v) \div 32768]]

\* The signed-32-bit conversion of rule 5, as the specification describes
\* it; it is only reached by int32 arrays, which it keeps.
img_as_int(a) == [shape |-> a.shape, dtype |-> "int32", data |-> a.data]

\* ------------------------------------------------------------ PIL
NoImage == [mode |-> NoMode, size |-> <<>>, data |-> <<>>, palette |-> <<>>,
            fp |-> "none", readable |-> FALSE]

\* Bytes per pixel of a raw mode of Image.fromstring.
RawBytesPerPixel(rawmode) ==
    IF rawmode = ModeL THEN 1
    ELSE IF rawmode = ModeRGB THEN 3
    ELSE IF rawmode = ModeI16 THEN 2
    ELSE 4

\* One pixel decoded from its raw bytes: "I;16" is an unsigned 16-bit
\* little-endian integer, "I" a signed 32-bit integer, the others one byte
\* per band.
UnpackPixel(c, rawmode) ==
    IF rawmode = ModeI16 THEN <<c[1] + 256 * c[2]>>
    ELSE IF rawmode = ModeI
         THEN <<c[1] + 256 * c[2] + 65536 * c[3]
                + 16777216 * (IF c[4] >= 128 THEN c[4] - 256 ELSE c[4])>>
    ELSE c

\* Image.new(mode, size) accepts only a two-element size.
ImageNewAccepts(size) == Len(size) = 2

\* im.fromstring(bytes, 'raw', rawmode) on an image of Image.new(mode, size);
\* the decoder needs width * height * bytes-per-pixel bytes.
FromStringAccepts(bytes, size, rawmode) ==
    Len(bytes) = size[1] * size[2] * RawBytesPerPixel(rawmode)

FromString(mode, size, bytes, rawmode) ==
    [mode |-> mode, size |-> size,
     data |-> [i \in 1..(size[1] * size[2]) |->
                 UnpackPixel(Chunk(bytes, RawBytesPerPixel(rawmode), i), rawmode)],
     palette |-> <<>>, fp |-> "none", readable |-> TRUE]

\* ------------------------------------------------------------ ndarray_to_pil
\* A tiff branch that keeps 16-bit precision instead of doing nothing.
TiffHintBranchConverts(a, format_str) ==
    IF format_str \in {"tiff", "tif"} THEN img_as_uint(a) ELSE a

\* Lines 112-114: the branch taken for the hints 'tiff' and 'tif' is `pass`.
TiffHintBranch(a, format_str) == a

\* The value-range rules tried before the floating-point rule.
SelectModeRangeFirst(a) ==
    IF Len(a.shape) = 3
    THEN LET m == IF a.shape[3] = 3 THEN ModeRGB ELSE ModeRGBA
         IN  [arr |-> img_as_ubyte(a), mode |-> m, mode_base |-> m]
    ELSE IF SeqMax(a.data) < 256 /\ SeqMin(a.data) >= 0
    THEN [arr |-> AsType(a, "uint8"), mode |-> ModeL, mode_base |-> ModeL]
    ELSE IF Kind(a.dtype) = "f"
    THEN [arr |-> img_as_uint(a), mode |-> ModeI16, mode_base |-> ModeI]
    ELSE IF SeqMax(a.data) < 65536 /\ SeqMin(a.data) >= 0
    THEN [arr |-> AsType(a, "uint16"), mode |-> ModeI16, mode_base |-> ModeI]
    ELSE [arr |-> img_as_int(a), mode |-> ModeI, mode_base |-> ModeI]

\* Lines 116-138: the converted array, the storage mode and the base mode.
SelectMode(a) ==
    IF Len(a.shape) = 3
    THEN LET m == IF a.shape[3] = 3 THEN ModeRGB ELSE ModeRGBA
         IN  [arr |-> img_as_ubyte(a), mode |-> m, mode_base |-> m]
    ELSE IF Kind(a.dtype) = "f"
    THEN [arr |-> img_as_uint(a), mode |-> ModeI16, mode_base |-> ModeI]
    ELSE IF SeqMax(a.data) < 256 /\ SeqMin(a.data) >= 0
    THEN [arr |-> AsType(a, "uint8"), mode |-> ModeL, mode_base |-> ModeL]
    ELSE IF SeqMax(a.data) < 65536 /\ SeqMin(a.data) >= 0
    THEN [arr |-> AsType(a, "uint16"), mode |-> ModeI16, mode_base |-> ModeI]
    ELSE [arr |-> img_as_int(a), mode |-> ModeI, mode_base |-> ModeI]

\* Line 140: the size handed to Image.new is arr.T.shape.
NewSize(a) == Reverse(a.shape)

\* Line 106: the message is built with "...%s" % arr.shape.  A one-element
\* shape fills the %s and the ValueError is raised; the empty shape of a 0-d
\* array, and a shape of more than one element, do not fit the single %s and
\* the % operator raises TypeError before the ValueError is built.
InvalidShapeError(shape) == IF Len(shape) = 1 THEN "InvalidShape" ELSE "TypeError"

Raised(err, a, mode, mode_base, size) ==
    [status |-> "raised", err |-> err, arr |-> a, mode |-> mode,
     mode_base |-> mode_base, size |-> size, packed |-> <<>>, im |-> NoImage]

\* The whole of ndarray_to_pil: how the call ends, with the locals it ends
\* with (arr, mode, mode_base, the size and the bytes handed to PIL) and the
\* image it returns.
ndarray_to_pil(arr, format_str) ==
    LET sq == Squeeze(arr)
    IN  IF Len(sq.shape) \notin {2, 3}
        THEN Raised(InvalidShapeError(sq.shape), sq, NoMode, NoMode, <<>>)
        ELSE IF Len(sq.shape) = 3 /\ sq.shape[3] \notin {3, 4}
        THEN Raised("InvalidChannels", sq, NoMode, NoMode, <<>>)
        ELSE LET sel == SelectMode(TiffHintBranch(sq, format_str))
                 size == NewSize(sel.arr)
                 bytes == tostring(sel.arr)
             IN  IF ~ImageNewAccepts(size)
                 THEN Raised("BadSize", sel.arr, sel.mode, sel.mode_base, size)
                 ELSE IF ~FromStringAccepts(bytes, size, sel.mode)
                 THEN [Raised("BadData", sel.arr, sel.mode, sel.mode_base, size)
                         EXCEPT !.packed = bytes]
                 ELSE [status |-> "returned", err |-> "None", arr |-> sel.arr,
                       mode |-> sel.mode, mode_base |-> sel.mode_base,
                       size |-> size, packed |-> bytes,
                       im |-> FromString(sel.mode_base, size, bytes, sel.mode)]

NoConv == Raised("None", NoArray, NoMode, NoMode, <<>>)

\* ------------------------------------------------------------ imsave
\* Lines 169-170: the format defaults to PNG for a file-like destination.
SaveFormat(fname_is_str, format_str) ==
    IF ~fname_is_str /\ format_str = "None" THEN "PNG" ELSE format_str

\* Line 172: the hint imsave hands to ndarray_to_pil.
ImsaveConversionHint(format_str) == "None"

\* ------------------------------------------------------------ PIL, saving
\* A file name is a sequence of characters; a file-like object without a
\* name gives Image.save the empty file name.
NoFileName == <<>>

PngExt == <<".", "p", "n", "g">>
TifExt == <<".", "t", "i", "f">>
TiffExt == <<".", "t", "i", "f", "f">>
JpgExt == <<".", "j", "p", "g">>
JpegExt == <<".", "j", "p", "e", "g">>

\* str.lower on one character of the file names drawn as inputs.
LowerChar(c) == IF c = "T" THEN "t"
                ELSE IF c = "I" THEN "i"
                ELSE IF c = "F" THEN "f"
                ELSE c

Lower(s) == [i \in 1..Len(s) |-> LowerChar(s[i])]

\* str.upper on a format name.
Upper(format) == IF format = "tiff" THEN "TIFF"
                 ELSE IF format = "tif" THEN "TIF"
                 ELSE IF format = "png" THEN "PNG"
                 ELSE format

\* os.path.splitext(filename)[1]: from the last dot on, a leading dot aside.
SplitExt(filename) ==
    LET dots == {i \in 2..Len(filename) : filename[i] = "."}
    IN  IF dots = {} THEN <<>>
        ELSE SubSeq(filename, CHOOSE i \in dots : \A j \in dots : j <= i,
                    Len(filename))

\* PIL's EXTENSION registry: the format of a file-name extension ("None" for
\* an extension no plugin registered).
ExtensionFormat(ext) ==
    IF ext = PngExt THEN "PNG"
    ELSE IF ext \in {TifExt, TiffExt} THEN "TIFF"
    ELSE IF ext \in {JpgExt, JpegExt} THEN "JPEG"
    ELSE "None"

\* PIL's SAVE registry: the formats that have a save handler.
SaveHandlers == {"PNG", "TIFF", "JPEG"}

\* Whether the save handler of a format writes an image of the mode: the PNG
\* and TIFF handlers write L and I, the JPEG handler only L.
SaveHandlerAccepts(format, mode) == format \in {"PNG", "TIFF"} \/ mode = ModeL

NoSave == [status |-> "none", err |-> "None", handler |-> "None"]

\* img.save(fname, format=format_str): without a format the extension of the
\* file name is looked up; the handler is looked up under the upper-cased
\* format; the handler rejects a mode it cannot write.
ImageSave(im, filename, format) ==
    LET fmt == IF format = "None" THEN ExtensionFormat(Lower(SplitExt(filename)))
               ELSE format
    IN  IF fmt = "None" \/ Upper(fmt) \notin SaveHandlers
        THEN [status |-> "raised", err |-> "KeyError", handler |-> "None"]
        ELSE IF ~SaveHandlerAccepts(Upper(fmt), im.mode)
        THEN [status |-> "raised", err |-> "IOError", handler |-> Upper(fmt)]
        ELSE [status |-> "returned", err |-> "None", handler |-> Upper(fmt)]

\* ------------------------------------------------------------ PIL, reading
\* Number of bands of a mode.
Bands(mode) ==
    IF mode \in {Mode1, ModeL, ModeP, ModeI, ModeF, ModeI16, ModeI16L, ModeI16B}
    THEN 1
    ELSE IF mode \in {ModeLA, ModePA} THEN 2
    ELSE IF mode \in {ModeRGB, ModeYCbCr} THEN 3
    ELSE 4

\* The element type numpy gives the pixels of a mode.
NaturalDtype(mode) ==
    IF mode = ModeI THEN "int32"
    ELSE IF mode = ModeF THEN "float32"
    ELSE IF mode \in {ModeI16, ModeI16L, ModeI16B} THEN "uint16"
    ELSE "uint8"

\* np.asarray(getpalette()).reshape((256, 3)): row i + 1 is palette entry i.
PaletteRows(flat) ==
    [i \in 1..(Len(flat) \div 3) |-> <<flat[3 * i - 2], flat[3 * i - 1], flat[3 * i]>>]

\* Image.getextrema() of a single-band image.
GetExtrema(im) ==
    LET v == [i \in 1..Len(im.data) |-> im.data[i][1]]
    IN  <<SeqMin(v), SeqMax(v)>>

\* ITU-R 601-2 luma, PIL's conversion of a color to "L".
Luma(c) == (c[1] * 299 + c[2] * 587 + c[3] * 114) \div 1000

\* Image.convert(target) for the conversions pil_to_ndarray asks for.
ConvertPixel(px, from, target, rows) ==
    IF from = ModeP /\ target = ModeL THEN <<Luma(rows[px[1] + 1])>>
    ELSE IF from = ModeP /\ target = ModeRGB THEN rows[px[1] + 1]
    ELSE IF from = ModeLA THEN <<px[1], px[1], px[1], px[2]>>
    ELSE IF from = ModePA THEN rows[px[1] + 1] \o <<px[2]>>
    ELSE px

Convert(im, target) ==
    [im EXCEPT !.mode = target,
               !.palette = <<>>,
               !.data = [i \in 1..Len(im.data) |->
                           ConvertPixel(im.data[i], im.mode, target,
                                        PaletteRows(im.palette))]]

\* im.tostring() of a 16-bit image: two bytes per pixel in the byte order of
\* the mode tag.
ImageToString(im) ==
    Flatten([i \in 1..Len(im.data) |->
               IF im.mode = ModeI16B THEN Reverse(LEBytes(im.data[i][1], 2))
               ELSE LEBytes(im.data[i][1], 2)])

\* np.fromstring(bytes, dtype) for the two 16-bit dtypes of line 60.
FromString16(bytes, dtype) ==
    [i \in 1..(Len(bytes) \div 2) |->
       LET c == Chunk(bytes, 2, i)
       IN  IF dtype = ">u2" THEN 256 * c[1] + c[2] ELSE c[1] + 256 * c[2]]

\* np.array(im, dtype=dtype) of an image: shape (height, width) or
\* (height, width, bands), the band values in raster order.
ArrayOfImage(im, dtype) ==
    LET nat == [shape |-> IF Bands(im.mode) = 1 THEN Reverse(im.size)
                          ELSE Reverse(im.size) \o <<Bands(im.mode)>>,
                dtype |-> NaturalDtype(im.mode),
                data |-> Flatten(im.data)]
    IN  IF dtype = "None" THEN nat ELSE AsType(nat, dtype)

\* ------------------------------------------------------------ _palette_is_grayscale
\* palette[start:stop]
Slice(rows, start, stop) == SubSeq(rows, start + 1, stop)

\* np.diff along the last axis: (G - R, B - G) of each row.
Diff(rows) == [i \in 1..Len(rows) |-> <<rows[i][2] - rows[i][1], rows[i][3] - rows[i][2]>>]

\* np.allclose(d, 0) of an integer table.
AllCloseZero(d) == \A i \in 1..Len(d) : \A j \in 1..Len(d[i]) : d[i][j] = 0

\* The whole palette tested, unused entries included.
ValidPaletteWhole(palette, start, stop) == palette

\* Line 89: the palette entries the test looks at.
ValidPalette(palette, start, stop) == Slice(palette, start, stop)

palette_is_grayscale(pil_image) ==
    LET palette == PaletteRows(pil_image.palette)
        ext == GetExtrema(pil_image)
    IN  AllCloseZero(Diff(ValidPalette(palette, ext[1], ext[2])))

\* ------------------------------------------------------------ pil_to_ndarray
\* Only the RGBA tag taken to have an alpha channel.
HasAlphaExact(mode) == mode = ModeRGBA

\* Line 63: the test for an alpha channel.
HasAlpha(mode) == Contains(mode, "A")

\* Lines 51-64: the rule that matches a mode, first match first.
RuleOf(mode) ==
    IF mode = ModeP THEN "palette"
    ELSE IF mode = Mode1 THEN "bilevel"
    ELSE IF StartsWith(mode, ModeI16) THEN "int16"
    ELSE IF HasAlpha(mode) THEN "alpha"
    ELSE "default"

\* Line 60: the dtype of the 16-bit branch.
Dtype16(mode) == IF EndsWith(mode, "B") THEN ">u2" ELSE "<u2"

NoRead == [status |-> "none", err |-> "None", rule |-> "none", mode |-> NoMode,
           out |-> NoArray, closed |-> FALSE]

\* np.array(im) of an image whose pixel data cannot be decoded: numpy drops
\* the error raised while it fetches im.__array_interface__ and wraps the
\* image itself in a 0-d object array.
ObjectArray == [shape |-> <<>>, dtype |-> "object", data |-> <<>>]

\* The whole of pil_to_ndarray: how the call ends, the rule taken, the mode
\* of the image after conversion, the array returned, and whether the file
\* handle was closed.  For an image whose data cannot be decoded, the
\* palette, 1-bit, 16-bit and alpha rules raise IOError (getpalette, convert
\* and tostring load the data) before line 66, and the handle stays open.
\* The default rule reaches np.array(im, dtype) at line 65: without a dtype
\* it returns the 0-d object array and the handle is closed; with a dtype
\* the image object cannot be cast and the call raises.
pil_to_ndarray(im, dtype) ==
    LET rule == RuleOf(im.mode)
    IN  IF ~im.readable /\ rule # "default"
        THEN [NoRead EXCEPT !.status = "raised", !.err = "IOError", !.rule = rule]
        ELSE IF ~im.readable /\ dtype # "None"
        THEN [NoRead EXCEPT !.status = "raised", !.err = "TypeError", !.rule = rule]
        ELSE IF ~im.readable
        THEN [status |-> "returned", err |-> "None", rule |-> rule,
              mode |-> im.mode, out |-> ObjectArray, closed |-> im.fp # "none"]
        ELSE IF rule = "int16"
        THEN [status |-> "returned", err |-> "None", rule |-> rule, mode |-> NoMode,
              out |-> [shape |-> Reverse(im.size), dtype |-> "uint16",
                       data |-> FromString16(ImageToString(im), Dtype16(im.mode))],
              closed |-> im.fp # "none"]
        ELSE LET conv == IF rule = "palette"
                         THEN (IF palette_is_grayscale(im) THEN Convert(im, ModeL)
                               ELSE Convert(im, ModeRGB))
                         ELSE IF rule = "bilevel" THEN Convert(im, ModeL)
                         ELSE IF rule = "alpha" THEN Convert(im, ModeRGBA)
                         ELSE im
             IN  [status |-> "returned", err |-> "None", rule |-> rule,
                  mode |-> conv.mode, out |-> ArrayOfImage(conv, dtype),
                  closed |-> im.fp # "none"]

\* The whole of imread: the readability check of line 34 raises ValueError
\* without reaching pil_to_ndarray.
imread(im, dtype) ==
    IF ~im.readable
    THEN [NoRead EXCEPT !.status = "raised", !.err = "ValueError"]
    ELSE pil_to_ndarray(im, dtype)

\* ------------------------------------------------------------ inputs
\* A list of n items, all a but the k-th, which is b.
Pattern(n, a, b, k) == [i \in 1..n |-> IF i = k THEN b ELSE a]

\* The places of the odd item: the first, the second (which a transposition
\* moves) and the last.
Places(n) == {1, 2, n} \cap 1..n

Hints == {"None", "tiff", "tif", "png"}

\* The file names imsave is given: known extensions (one in upper case) and
\* one no plugin registered.
FileNames == {<<"a">> \o PngExt, <<"a", ".", "T", "I", "F">>, <<"a">> \o JpgExt,
              <<"a", ".", "d", "a", "t">>}

DtypeValues(dtype) ==
    IF dtype = "uint8" THEN {0, 255}
    ELSE IF dtype = "uint16" THEN {0, 256, 65535}
    ELSE IF dtype = "int32" THEN {-1, 0, 255, 256, 65535, 65536}
    ELSE 0..FloatDen

InputShapes ==
    {<<n>> : n \in 1..MaxW}
    \cup {<<h, w>> : h \in 1..MaxH, w \in 1..MaxW}
    \cup {<<h, w, c>> : h \in 1..MaxH, w \in 1..MaxW, c \in 1..MaxC}

InputArrays ==
    UNION {UNION {{[shape |-> sh, dtype |-> dt,
                    data |-> Pattern(Product(sh), a, b, k)] :
                     a \in DtypeValues(dt), b \in DtypeValues(dt),
                     k \in Places(Product(sh))} :
                  dt \in {"uint8", "uint16", "int32", "float64"}} :
           sh \in InputShapes}

SourceModes == {Mode1, ModeL, ModeP, ModeI, ModeF, ModeLA, ModePA, ModeRGB,
                ModeRGBA, ModeRGBX, ModeCMYK, ModeYCbCr, ModeI16, ModeI16L,
                ModeI16B}

PaletteModes == {ModeP, ModePA}

\* Sample pixels of each mode.
Pixels(mode) ==
    IF mode = Mode1 THEN {<<0>>, <<255>>}
    ELSE IF mode = ModeL THEN {<<0>>, <<200>>}
    ELSE IF mode = ModeP THEN {<<i>> : i \in 0..(PalLen - 1)}
    ELSE IF mode = ModeI THEN {<<-1>>, <<70000>>}
    ELSE IF mode = ModeF THEN {<<0>>, <<FloatDen>>}
    ELSE IF mode \in {ModeI16, ModeI16L, ModeI16B} THEN {<<1>>, <<258>>, <<65535>>}
    ELSE IF mode = ModeLA THEN {<<0, 255>>, <<200, 0>>}
    ELSE IF mode = ModePA THEN {<<0, 255>>, <<PalLen - 1, 0>>}
    ELSE IF Bands(mode) = 3 THEN {<<1, 2, 3>>, <<255, 0, 0>>}
    ELSE {<<1, 2, 3, 4>>, <<0, 0, 0, 255>>}

\* Palette entries: one gray, one with R # G only, one with G # B only.
Colors == {<<5, 5, 5>>, <<1, 2, 2>>, <<2, 2, 3>>}

Palettes(mode) ==
    IF mode \in PaletteModes
    THEN {Flatten(rows) : rows \in [1..PalLen -> Colors]}
    ELSE {<<>>}

\* The images a caller can hand over: decodable ones, and ones whose file
\* cannot be decoded, which have no pixel data.
SourceImages ==
    UNION {UNION {{[mode |-> m, size |-> <<w, h>>,
                    data |-> Pattern(w * h, a, b, k),
                    palette |-> pal, fp |-> f, readable |-> TRUE] :
                     a \in Pixels(m), b \in Pixels(m), k \in Places(w * h),
                     pal \in Palettes(m), f \in {"none", "open"}} :
                  w \in 1..MaxW, h \in 1..MaxH} :
           m \in SourceModes}
    \cup {[mode |-> m, size |-> <<w, h>>, data |-> <<>>, palette |-> <<>>,
           fp |-> f, readable |-> FALSE] :
            m \in SourceModes, w \in 1..MaxW, h \in 1..MaxH, f \in {"none", "open"}}

\* ------------------------------------------------------------ state
VARIABLES
    pc,            \* "idle", or how the last call ended: "returned", "raised"
    op,            \* the entry point called
    arr,           \* ndarray_to_pil, imsave: the array argument
    format_str,    \* the hint ndarray_to_pil was called with
    hint,          \* imsave: the caller's format_str
    fname_is_str,  \* imsave: whether fname is a string
    fname,         \* imsave: the file name (NoFileName for a file-like object)
    conv,          \* ndarray_to_pil: how it ended
    save_format,   \* imsave: the format handed to img.save
    saved,         \* imsave: how img.save ended
    prev,          \* how the previous ndarray_to_pil call on arr ended
    src,           \* pil_to_ndarray, imread, _palette_is_grayscale: the image
    dtype,         \* pil_to_ndarray, imread: the dtype argument
    rd,            \* pil_to_ndarray, imread: how it ended
    fp,            \* the file handle of src: "none", "open", "closed"
    is_grayscale   \* _palette_is_grayscale: the value returned

vars == <<pc, op, arr, format_str, hint, fname_is_str, fname, conv, save_format,
          saved, prev, src, dtype, rd, fp, is_grayscale>>

writeVars == <<arr, format_str, hint, fname_is_str, fname, conv, save_format,
               saved, prev>>

readVars == <<src, dtype, rd, fp, is_grayscale>>

\* How a call of ndarray_to_pil with hint f ended: the error, or the mode,
\* size, packed bytes and image (all part of c).
Outcome(c, f) == [conv |-> c, format_str |-> f]

NoPrev == Outcome(NoConv, "None")

Init ==
    /\ pc = "idle"
    /\ op = "none"
    /\ arr = NoArray
    /\ format_str = "None"
    /\ hint = "None"
    /\ fname_is_str = TRUE
    /\ fname = NoFileName
    /\ conv = NoConv
    /\ save_format = "None"
    /\ saved = NoSave
    /\ prev = NoPrev
    /\ src = NoImage
    /\ dtype = "None"
    /\ rd = NoRead
    /\ fp = "none"
    /\ is_grayscale = FALSE

\* ------------------------------------------------------------ actions
\* ndarray_to_pil(a, f)
CallNdarrayToPil ==
    /\ pc = "idle"
    /\ \E a \in InputArrays, f \in Hints :
         /\ arr' = a
         /\ format_str' = f
         /\ conv' = ndarray_to_pil(a, f)
    /\ pc' = conv'.status
    /\ op' = "ndarray_to_pil"
    /\ UNCHANGED <<hint, fname_is_str, fname, save_format, saved, prev>>
    /\ UNCHANGED readVars

\* ndarray_to_pil called once more on the same array with another hint.
CallNdarrayToPilAgain ==
    /\ pc # "idle"
    /\ op = "ndarray_to_pil"
    /\ prev = NoPrev
    /\ \E f \in Hints \ {format_str} :
         /\ format_str' = f
         /\ conv' = ndarray_to_pil(arr, f)
    /\ prev' = Outcome(conv, format_str)
    /\ pc' = conv'.status
    /\ UNCHANGED <<op, arr, hint, fname_is_str, fname, save_format, saved>>
    /\ UNCHANGED readVars

\* imsave(fname, a, f): img.save is reached only if the conversion returns,
\* and imsave ends as img.save ends.
CallImsave ==
    /\ pc = "idle"
    /\ \E a \in InputArrays, f \in Hints, n \in FileNames \cup {NoFileName} :
         /\ arr' = a
         /\ hint' = f
         /\ fname' = n
         /\ fname_is_str' = (n # NoFileName)
         /\ format_str' = ImsaveConversionHint(SaveFormat(fname_is_str', f))
         /\ conv' = ndarray_to_pil(a, format_str')
         /\ save_format' = IF conv'.status = "returned"
                           THEN SaveFormat(fname_is_str', f)
                           ELSE "None"
         /\ saved' = IF conv'.status = "returned"
                     THEN ImageSave(conv'.im, n, save_format')
                     ELSE NoSave
    /\ pc' = IF conv'.status = "returned" THEN saved'.status ELSE conv'.status
    /\ op' = "imsave"
    /\ UNCHANGED prev
    /\ UNCHANGED readVars

HandleAfter(im, r) == IF im.fp = "none" THEN "none"
                      ELSE IF r.closed THEN "closed" ELSE "open"

\* pil_to_ndarray(im, d)
CallPilToNdarray ==
    /\ pc = "idle"
    /\ \E im \in SourceImages, d \in {"None", "uint8"} :
         /\ src' = im
         /\ dtype' = d
         /\ rd' = pil_to_ndarray(im, d)
    /\ fp' = HandleAfter(src', rd')
    /\ pc' = rd'.status
    /\ op' = "pil_to_ndarray"
    /\ is_grayscale' = FALSE
    /\ UNCHANGED writeVars

\* imread(fname, d): Image.open gives an image that holds the open file.
CallImread ==
    /\ pc = "idle"
    /\ \E im \in SourceImages, d \in {"None", "uint8"} :
         /\ im.fp = "open"
         /\ src' = im
         /\ dtype' = d
         /\ rd' = imread(im, d)
    /\ fp' = HandleAfter(src', rd')
    /\ pc' = rd'.status
    /\ op' = "imread"
    /\ is_grayscale' = FALSE
    /\ UNCHANGED writeVars

\* _palette_is_grayscale(im) on a decoded palette image.
CallPaletteIsGrayscale ==
    /\ pc = "idle"
    /\ \E im \in SourceImages :
         /\ im.mode = ModeP
         /\ im.readable
         /\ src' = im
         /\ is_grayscale' = palette_is_grayscale(im)
    /\ pc' = "returned"
    /\ op' = "palette_is_grayscale"
    /\ UNCHANGED <<dtype, rd, fp>>
    /\ UNCHANGED writeVars

\* pil_to_ndarray(ndarray_to_pil(arr)): the image just built is read back.
ReadBack ==
    /\ pc = "returned"
    /\ op = "ndarray_to_pil"
    /\ src' = conv.im
    /\ dtype' = "None"
    /\ rd' = pil_to_ndarray(conv.im, "None")
    /\ fp' = HandleAfter(src', rd')
    /\ pc' = rd'.status
    /\ op' = "roundtrip"
    /\ is_grayscale' = FALSE
    /\ UNCHANGED writeVars

\* The caller is done with the results.
Done ==
    /\ pc # "idle"
    /\ pc' = "idle"
    /\ op' = "none"
    /\ arr' = NoArray
    /\ format_str' = "None"
    /\ hint' = "None"
    /\ fname_is_str' = TRUE
    /\ fname' = NoFileName
    /\ conv' = NoConv
    /\ save_format' = "None"
    /\ saved' = NoSave
    /\ prev' = NoPrev
    /\ src' = NoImage
    /\ dtype' = "None"
    /\ rd' = NoRead
    /\ fp' = "none"
    /\ is_grayscale' = FALSE

Next ==
    \/ CallNdarrayToPil
    \/ CallNdarrayToPilAgain
    \/ CallImsave
    \/ CallPilToNdarray
    \/ CallImread
    \/ CallPaletteIsGrayscale
    \/ ReadBack
    \/ Done

Spec == Init /\ [][Next]_vars

\* ------------------------------------------------------------ properties
IsInteger2D(a) == Len(a.shape) = 2 /\ Kind(a.dtype) # "f"

AllIn(a, lo, hi) == \A i \in 1..Len(a.data) : lo <= a.data[i] /\ a.data[i] < hi

\* The round trip of arr succeeded and gave back its shape and its values.
RoundTripExact ==
    /\ op = "ndarray_to_pil" => pc = "returned"
    /\ op = "roundtrip" =>
         /\ pc = "returned"
         /\ rd.out.shape = arr.shape
         /\ rd.out.data = arr.data

\* C1: for every integer array of shape (h, w), h >= 1 and w >= 1, with all
\* values in [0, 256), pil_to_ndarray(ndarray_to_pil(A)) succeeds and returns
\* an array of shape (h, w) equal to A position by position.
C1_RoundTrip8 ==
    (op \in {"ndarray_to_pil", "roundtrip"} /\ IsInteger2D(arr) /\ AllIn(arr, 0, 256))
        => RoundTripExact

\* C6: for every integer array of shape (h, w), h >= 1 and w >= 1, with all
\* values in [256, 65536), pil_to_ndarray(ndarray_to_pil(A)) succeeds and
\* returns an array of shape (h, w) with the values of A position by position.
C6_RoundTrip16 ==
    (op \in {"ndarray_to_pil", "roundtrip"} /\ IsInteger2D(arr) /\ AllIn(arr, 256, 65536))
        => RoundTripExact

\* C2: ndarray_to_pil on an array of shape (h, w, 2), h >= 1 and w >= 1, fails
\* with the invalid-shape ValueError and constructs no image; and a call
\* returns an image only if the input array is 2-D, or 3-D with last dimension
\* 3 or 4.
C2_ChannelValidation ==
    op = "ndarray_to_pil" =>
        /\ (Len(arr.shape) = 3 /\ arr.shape[3] = 2) =>
              /\ pc = "raised"
              /\ conv.err \in {"InvalidShape", "InvalidChannels"}
              /\ conv.im = NoImage
        /\ pc = "returned" =>
              \/ Len(arr.shape) = 2
              \/ Len(arr.shape) = 3 /\ arr.shape[3] \in {3, 4}

\* C3: whenever the image passed to pil_to_ndarray (directly or through
\* imread) holds an open file handle, the handle is closed when the call ends,
\* whether it returns or raises.
C3_HandleClosedOnEveryExit ==
    (op \in {"pil_to_ndarray", "imread"} /\ pc \in {"returned", "raised"}
       /\ src.fp = "open")
        => fp = "closed"

\* The call got past the shape validation of lines 105-110.
Validated == op \in {"ndarray_to_pil", "imsave"}
             /\ Len(Squeeze(arr).shape) \in {2, 3}
             /\ conv.err # "InvalidChannels"

\* C4: mode selection is a first-match-wins table over the squeezed array:
\* 3 channels give RGB and 4 give RGBA; otherwise a float 2-D array gives
\* storage mode I;16 with base I whatever its values; otherwise values in
\* [0, 256) give L; otherwise values in [0, 65536) give I;16 with base I;
\* otherwise (a negative value or one >= 65536) mode I.
C4_ModeSelection ==
    Validated =>
        LET sq == Squeeze(arr)
            is2d == Len(sq.shape) = 2
            float == Kind(sq.dtype) = "f"
            nonneg == \A i \in 1..Len(sq.data) : sq.data[i] >= 0
            below8 == \A i \in 1..Len(sq.data) : sq.data[i] < 256
            below16 == \A i \in 1..Len(sq.data) : sq.data[i] < 65536
            chose(m, b) == conv.mode = m /\ conv.mode_base = b
        IN  /\ (Len(sq.shape) = 3 /\ sq.shape[3] = 3) => chose(ModeRGB, ModeRGB)
            /\ (Len(sq.shape) = 3 /\ sq.shape[3] = 4) => chose(ModeRGBA, ModeRGBA)
            /\ (is2d /\ float) => chose(ModeI16, ModeI)
            /\ (is2d /\ ~float /\ nonneg /\ below8) => chose(ModeL, ModeL)
            /\ (is2d /\ ~float /\ nonneg /\ ~below8 /\ below16) => chose(ModeI16, ModeI)
            /\ (is2d /\ ~float /\ (~nonneg \/ ~below16)) => chose(ModeI, ModeI)
            /\ \/ chose(ModeRGB, ModeRGB) \/ chose(ModeRGBA, ModeRGBA)
               \/ chose(ModeI16, ModeI) \/ chose(ModeL, ModeL) \/ chose(ModeI, ModeI)

\* A float array whose values would all fit in 8 bits was given I;16.
C4_Witness ==
    /\ op = "ndarray_to_pil"
    /\ pc = "returned"
    /\ Kind(arr.dtype) = "f"
    /\ AllIn(arr, 0, 1)
    /\ conv.mode = ModeI16
    /\ conv.im.mode = ModeI

\* Palette entry i (from 0) of a flat palette has R = G = B.
EntryIsGray(flat, i) == flat[3 * i + 1] = flat[3 * i + 2] /\ flat[3 * i + 2] = flat[3 * i + 3]

\* C5: _palette_is_grayscale returns true if and only if every palette entry
\* with index in [start, stop) has R = G = B; entries outside the range never
\* change the result, and an empty range gives true.
C5_GrayscaleDetector ==
    op = "palette_is_grayscale" =>
        LET ext == GetExtrema(src)
        IN  is_grayscale = (\A i \in ext[1]..(ext[2] - 1) : EntryIsGray(src.palette, i))

\* The detector answered true on a non-empty range although an entry outside
\* the range is not gray.
C5_Witness ==
    /\ op = "palette_is_grayscale"
    /\ is_grayscale
    /\ GetExtrema(src)[1] < GetExtrema(src)[2]
    /\ \E i \in 0..(PalLen - 1) :
         /\ i \notin GetExtrema(src)[1]..(GetExtrema(src)[2] - 1)
         /\ ~EntryIsGray(src.palette, i)

\* C7: the format hint never influences the conversion: two calls of
\* ndarray_to_pil on the same array with different hints end the same way
\* (same error, or same mode, size, pixels and packed bytes); and imsave calls
\* the conversion without the caller's hint and uses the hint only for the
\* save.
C7_HintIgnored ==
    /\ prev # NoPrev =>
         /\ conv.status = prev.conv.status
         /\ conv.err = prev.conv.err
         /\ conv.mode = prev.conv.mode
         /\ conv.mode_base = prev.conv.mode_base
         /\ conv.size = prev.conv.size
         /\ conv.packed = prev.conv.packed
         /\ conv.im = prev.conv.im
    /\ op = "imsave" =>
         /\ format_str = "None"
         /\ conv.status = "returned" =>
              save_format = IF ~fname_is_str /\ hint = "None" THEN "PNG" ELSE hint

\* The same array was converted without a hint and then with the hint 'tiff'.
C7_Witness ==
    /\ op = "ndarray_to_pil"
    /\ pc = "returned"
    /\ prev # NoPrev
    /\ prev.format_str = "None"
    /\ format_str = "tiff"

\* C8: for every source image whose mode tag contains 'A', pil_to_ndarray
\* converts it to RGBA and returns an array with exactly 4 channels; and the
\* alpha rule is taken only when the palette, 1-bit and 16-bit rules have not
\* matched.
C8_AlphaHandling ==
    (op \in {"pil_to_ndarray", "imread"} /\ pc = "returned") =>
        /\ Contains(src.mode, "A") =>
              /\ rd.rule = "alpha"
              /\ rd.mode = ModeRGBA
              /\ Len(rd.out.shape) = 3
              /\ rd.out.shape[3] = 4
              /\ Len(rd.out.data) = 4 * src.size[1] * src.size[2]
        /\ rd.rule = "alpha" =>
              /\ src.mode # ModeP
              /\ src.mode # Mode1
              /\ ~StartsWith(src.mode, ModeI16)

\* A two-band image (LA) came back as a 4-channel array.
C8_Witness ==
    /\ op = "pil_to_ndarray"
    /\ pc = "returned"
    /\ src.mode = ModeLA
    /\ rd.out.shape = <<src.size[2], src.size[1], 4>>

\* C9: for every array that passes validation (2-D, or 3-D with 3 or 4
\* channels), the image is constructed with the two-element size
\* (width, height) of the array, and the packed byte count is
\* width * height * bytes-per-pixel of the selected mode.
C9_SizeMatchesArray ==
    Validated =>
        LET sq == Squeeze(arr)
            wh == <<sq.shape[2], sq.shape[1]>>
        IN  /\ conv.size = wh
            /\ conv.status = "returned"
            /\ conv.im.size = wh
            /\ Len(conv.packed) = wh[1] * wh[2] * RawBytesPerPixel(conv.mode)

\* C10: a 'P' image is converted to 'L' only if every palette entry with index
\* in min..max inclusive (the extrema of the image) has R = G = B; otherwise
\* it is converted to RGB.
C10_GrayOnlyIfUsedEntriesGray ==
    (op \in {"pil_to_ndarray", "imread"} /\ pc = "returned" /\ src.mode = ModeP) =>
        LET ext == GetExtrema(src)
            allGray == \A i \in ext[1]..ext[2] : EntryIsGray(src.palette, i)
        IN  /\ rd.mode = ModeL => allGray
            /\ ~allGray => rd.mode = ModeRGB

====
